---- MODULE Spec2Model ----
(***************************************************************************)
(* Model of the perforated-panel engine (src/src/engine/panelEngine.ts):   *)
(* the axis tiling solver, the layout composer, arrangeAxis, the image     *)
(* sampler and the hole grid generator; and of the state handlers of the   *)
(* application (src/src/App.tsx) that call it.                             *)
(*                                                                         *)
(* panelState is the PanelState a function is applied to or the App holds, *)
(* args and ret record the last call and what it returned, pending holds   *)
(* the image loads in flight and requested the last image request.         *)
(*                                                                         *)
(* Lengths are integers counted in hundredths of an inch, so 24" is 2400,  *)
(* the default gap 0.25" is 25 and the solver's tolerance 0.01" is 1.      *)
(* Arithmetic is exact; a coverage (total / wallDim) is kept as the pair   *)
(* [num, den] and is only ever compared, as the source does.               *)
(***************************************************************************)
EXTENDS Integers, Sequences, FiniteSets, TLC

VARIABLES panelState, args, ret, pending, requested

vars == <<panelState, args, ret, pending, requested>>

---------------------------------------------------------------------------
(* Bounds of the explored input space *)

MaxCatalog == 2
MaxLayoutIdx == 1
MaxCount == 3

(* Program constants *)

Tol == 1
CovTolNum == 3
CovTolDen == 1000
MaxPerSize == 30
MaxAxisSolutions == 12
MaxPerAxis == 6
MaxLayouts == 15

---------------------------------------------------------------------------
(* Small arithmetic helpers standing for Math.max / Math.min / Math.abs /   *)
(* Math.ceil and Array.prototype.reduce                                    *)

Max(a, b) == IF a >= b THEN a ELSE b

Min(a, b) == IF a <= b THEN a ELSE b

Abs(a) == IF a < 0 THEN 0 - a ELSE a

Sign(a) == IF a < 0 THEN 0 - 1 ELSE IF a > 0 THEN 1 ELSE 0

(* Math.floor in place of Math.ceil *)
FloorHalf(n) == n \div 2

CeilHalf(n) == (n + 1) \div 2

RECURSIVE SumSeq(_)
SumSeq(s) == IF s = <<>> THEN 0 ELSE s[1] + SumSeq(Tail(s))

RECURSIVE Flatten(_)
Flatten(ss) == IF ss = <<>> THEN <<>> ELSE ss[1] \o Flatten(Tail(ss))

SetMax(S) == CHOOSE x \in S : \A y \in S : y <= x

SetMin(S) == CHOOSE x \in S : \A y \in S : x <= y

(* sizes.slice().sort((a, b) => b - a): the catalog in descending order *)
RECURSIVE SortDesc(_)
SortDesc(S) == IF S = {} THEN <<>> ELSE <<SetMax(S)>> \o SortDesc(S \ {SetMax(S)})

(* the keys of a count map in ascending order *)
RECURSIVE SortAsc(_)
SortAsc(S) == IF S = {} THEN <<>> ELSE <<SetMin(S)>> \o SortAsc(S \ {SetMin(S)})

---------------------------------------------------------------------------
(* Coverage arithmetic.  b.coverage - a.coverage for two coverages over the *)
(* same denominator; a zero denominator makes both Infinity and their      *)
(* difference NaN, for which every comparison is false.                    *)

CoverageIsNaNDiff(a, b) == a.den = 0 \/ b.den = 0

(* Math.abs(cd) > 0.003 *)
ExceedsTolerance(a, b) ==
  /\ ~CoverageIsNaNDiff(a, b)
  /\ Abs(b.num - a.num) > (CovTolNum * Abs(a.den)) \div CovTolDen

(* the sign of cd = b.coverage - a.coverage *)
CoverageDiffSign(a, b) == Sign(b.num - a.num) * Sign(a.den)

(* Object.keys(counts).length: every key counts, also one whose count is 0 *)
NumKeys(counts) == Cardinality(DOMAIN counts)

(* comparator of results.sort, panelEngine.ts:73-79 *)
AxisCompare(a, b) ==
  IF ExceedsTolerance(a.coverage, b.coverage)
  THEN CoverageDiffSign(a.coverage, b.coverage)
  ELSE IF NumKeys(a.counts) # NumKeys(b.counts)
       THEN Sign(NumKeys(a.counts) - NumKeys(b.counts))
       ELSE Sign(a.numPanels - b.numPanels)

(* the layout comparator with the coverage difference taken the other way *)
LayoutCompareAscending(a, b) ==
  IF ExceedsTolerance(a.totalCoverage, b.totalCoverage)
  THEN 0 - CoverageDiffSign(a.totalCoverage, b.totalCoverage)
  ELSE Sign(a.totalPanels - b.totalPanels)

(* comparator of combos.sort, panelEngine.ts:148-152 *)
LayoutCompare(a, b) ==
  IF ExceedsTolerance(a.totalCoverage, b.totalCoverage)
  THEN CoverageDiffSign(a.totalCoverage, b.totalCoverage)
  ELSE Sign(a.totalPanels - b.totalPanels)

Compare(kind, a, b) ==
  IF kind = "axis" THEN AxisCompare(a, b) ELSE LayoutCompare(a, b)

---------------------------------------------------------------------------
(* Array.prototype.sort with a comparator.  The comparators above are not  *)
(* consistent orders (ties within the tolerance are not transitive), so    *)
(* the outcome depends on the algorithm; the one modelled is V8's TimSort  *)
(* (Node, Chrome) on an array shorter than 64 elements: one initial run is *)
(* detected (and reversed when strictly descending), the rest is inserted  *)
(* by binary insertion.                                                    *)

RECURSIVE RunLength(_, _, _, _)
RunLength(kind, arr, desc, i) ==
  IF i >= Len(arr) THEN i
  ELSE LET order == Compare(kind, arr[i + 1], arr[i])
       IN IF (desc /\ order >= 0) \/ (~desc /\ order < 0)
          THEN i
          ELSE RunLength(kind, arr, desc, i + 1)

ReverseRange(arr, n) ==
  [i \in 1..Len(arr) |-> IF i <= n THEN arr[n + 1 - i] ELSE arr[i]]

RECURSIVE BinarySearch(_, _, _, _, _)
BinarySearch(kind, arr, pivot, left, right) ==
  IF left >= right THEN left
  ELSE LET mid == left + ((right - left) \div 2)
       IN IF Compare(kind, pivot, arr[mid + 1]) < 0
          THEN BinarySearch(kind, arr, pivot, left, mid)
          ELSE BinarySearch(kind, arr, pivot, mid + 1, right)

RECURSIVE BinaryInsertionSort(_, _, _)
BinaryInsertionSort(kind, arr, start) ==
  IF start > Len(arr) THEN arr
  ELSE LET pivot == arr[start]
           left == BinarySearch(kind, arr, pivot, 0, start - 1)
           moved == [i \in 1..Len(arr) |->
                       IF i <= left THEN arr[i]
                       ELSE IF i = left + 1 THEN pivot
                       ELSE IF i <= start THEN arr[i - 1]
                       ELSE arr[i]]
       IN BinaryInsertionSort(kind, moved, start + 1)

ArraySort(kind, arr) ==
  IF Len(arr) < 2 THEN arr
  ELSE LET desc == Compare(kind, arr[2], arr[1]) < 0
           run == RunLength(kind, arr, desc, 2)
           made == IF desc THEN ReverseRange(arr, run) ELSE arr
       IN BinaryInsertionSort(kind, made, run + 1)

---------------------------------------------------------------------------
(* solveAxis, panelEngine.ts:44-94 *)

(* counts[size] = (counts[size] || 0) + n: the key exists from here on,    *)
(* with the value 0 when n = 0                                             *)
AddCount(counts, size, n) ==
  [k \in (DOMAIN counts) \cup {size} |->
     IF k = size
     THEN (IF size \in DOMAIN counts THEN counts[size] ELSE 0) + n
     ELSE counts[k]]

(* the pruning test with the gap allowed twice *)
PrunedLoose(totalWithGaps, wallDim, gap) == totalWithGaps > wallDim + gap + gap + Tol

(* the pruning test of recurse, panelEngine.ts:51 *)
Pruned(totalWithGaps, wallDim, gap) == totalWithGaps > wallDim + gap + Tol

(* Math.floor((wallDim - totalWithGaps + gap) / (size + (numPanels > 0 ? gap : 0))) *)
MaxN(wallDim, gap, size, totalWithGaps, numPanels) ==
  (wallDim - totalWithGaps + gap) \div (size + (IF numPanels > 0 THEN gap ELSE 0))

(* the push guarded by numPanels >= 0, which also records the empty assignment *)
PushedAlways(wallDim, totalWithGaps, numPanels, counts) ==
  << [counts |-> counts,
      total |-> totalWithGaps,
      coverage |-> [num |-> totalWithGaps, den |-> wallDim],
      numPanels |-> numPanels] >>

(* results.push(...) when numPanels > 0, panelEngine.ts:52-59 *)
Pushed(wallDim, totalWithGaps, numPanels, counts) ==
  IF numPanels > 0
  THEN << [counts |-> counts,
           total |-> totalWithGaps,
           coverage |-> [num |-> totalWithGaps, den |-> wallDim],
           numPanels |-> numPanels] >>
  ELSE <<>>

RECURSIVE recurse(_, _, _, _, _, _, _)
recurse(wallDim, gap, sorted, idx, totalDim, numPanels, counts) ==
  LET totalWithGaps == totalDim + Max(0, numPanels - 1) * gap
  IN IF Pruned(totalWithGaps, wallDim, gap) THEN <<>>
     ELSE LET pushed == Pushed(wallDim, totalWithGaps, numPanels, counts)
          IN IF idx > Len(sorted) THEN pushed
             ELSE LET size == sorted[idx]
                      maxN == MaxN(wallDim, gap, size, totalWithGaps, numPanels)
                      top == Min(maxN, MaxPerSize)
                  IN pushed \o
                     (IF top < 0 THEN <<>>
                      ELSE Flatten([j \in 1..(top + 1) |->
                             recurse(wallDim, gap, sorted, idx + 1,
                                     totalDim + (j - 1) * size,
                                     numPanels + (j - 1),
                                     AddCount(counts, size, j - 1))]))

(* the canonical signature: the sorted "size:count" pairs of every key *)
Signature(counts) == {<<k, counts[k]>> : k \in DOMAIN counts}

RECURSIVE Dedup(_, _)
Dedup(results, seen) ==
  IF results = <<>> THEN <<>>
  ELSE LET r == results[1]
           key == Signature(r.counts)
       IN IF key \in seen
          THEN Dedup(Tail(results), seen)
          ELSE <<r>> \o Dedup(Tail(results), seen \cup {key})

Slice(s, n) == SubSeq(s, 1, Min(n, Len(s)))

RawResults(wallDim, gap, sizes) ==
  recurse(wallDim, gap, SortDesc(sizes), 1, 0, 0, <<>>)

solveAxis(wallDim, gap, sizes) ==
  IF sizes = {} THEN <<>>
  ELSE Slice(Dedup(ArraySort("axis", RawResults(wallDim, gap, sizes)), {}),
             MaxAxisSolutions)

---------------------------------------------------------------------------
(* arrangeAxis, panelEngine.ts:96-110 *)

(* parseInt applied to a count-map key.  A key is the decimal text of the  *)
(* length; parseInt stops at the decimal point, so the fraction of an inch *)
(* (the last two digits in hundredths) is dropped.                         *)
ParseInt(k) == (k \div 100) * 100

Repeat(v, n) == [i \in 1..n |-> v]

(* the entries sorted by parsed size, each size pushed count times *)
ExpandCounts(counts) ==
  LET keys == SortAsc(DOMAIN counts)
  IN Flatten([i \in 1..Len(keys) |-> Repeat(ParseInt(keys[i]), counts[keys[i]])])

SeqMax(s) == SetMax({s[i] : i \in 1..Len(s)})

arrangeAxis(counts) ==
  LET all == ExpandCounts(counts)
  IN IF Len(all) <= 2 THEN all
     ELSE LET largest == SeqMax(all)
              IsEdge(p) == p < largest
              IsMiddle(p) == p = largest
              edges == SelectSeq(all, IsEdge)
              middles == SelectSeq(all, IsMiddle)
              half == CeilHalf(Len(edges))
              leftEdge == SubSeq(edges, 1, half)
              rightEdge == SubSeq(edges, half + 1, Len(edges))
          IN leftEdge \o middles \o rightEdge

(* describeCounts, panelEngine.ts:112-115: per entry either the size alone *)
(* (count 1) or count x size, joined in ascending order of parsed size     *)
describeCounts(counts) ==
  LET keys == SortAsc(DOMAIN counts)
  IN [i \in 1..Len(keys) |->
        IF counts[keys[i]] = 1
        THEN <<ParseInt(keys[i])>>
        ELSE <<counts[keys[i]], ParseInt(keys[i])>>]

---------------------------------------------------------------------------
(* solveAndBuildPanels, panelEngine.ts:117-195 *)

EmptyBuild ==
  [layoutOptions |-> <<>>, panels |-> <<>>, colWidths |-> <<>>, rowHeights |-> <<>>]

(* (w.coverage + h.coverage) / 2 as one fraction *)
AverageCoverage(w, h) ==
  [num |-> w.coverage.num * h.coverage.den + h.coverage.num * w.coverage.den,
   den |-> 2 * w.coverage.den * h.coverage.den]

Combos(wSolutions, hSolutions) ==
  LET maxW == Min(Len(wSolutions), MaxPerAxis)
      maxH == Min(Len(hSolutions), MaxPerAxis)
  IN [i \in 1..(maxW * maxH) |->
        LET w == wSolutions[((i - 1) \div maxH) + 1]
            h == hSolutions[((i - 1) % maxH) + 1]
        IN [w |-> w, h |-> h,
            totalCoverage |-> AverageCoverage(w, h),
            totalPanels |-> w.numPanels * h.numPanels,
            desc |-> <<describeCounts(w.counts), describeCounts(h.counts)>>]]

(* total span of an arranged axis: the lengths plus the gaps between them *)
TotalSpan(lengths, gap) == SumSeq(lengths) + (Len(lengths) - 1) * gap

(* panels butted against each other, the gap left out of the step *)
AdvanceNoGap(lengths, gap, i) == SumSeq(SubSeq(lengths, 1, i - 1))

(* xPos += pw + gap, yPos += rowHeights[r] + gap: how far the i-th panel   *)
(* of an axis lies from the first                                          *)
Advance(lengths, gap, i) == SumSeq(SubSeq(lengths, 1, i - 1)) + (i - 1) * gap

(* a grid laid out from the wall origin, without the centring offset *)
TwicePositionFlushLeft(wallDim, lengths, gap, i) ==
  2 * (SumSeq(SubSeq(lengths, 1, i - 1)) + (i - 1) * gap)

(* Panel positions are kept at twice their value, so that the centring     *)
(* offset (wall - total) / 2 stays an integer: x and y below are 2 * x and *)
(* 2 * y of the source; w and h are plain lengths.                         *)
TwicePosition(wallDim, lengths, gap, i) ==
  (wallDim - TotalSpan(lengths, gap)) + 2 * Advance(lengths, gap, i)

(* String.fromCharCode(n): the one UTF-16 code unit n mod 2^16 *)
FromCharCode(n) == <<n % 65536>>

(* `${n}` for a non-negative integer: its decimal digits as code units *)
RECURSIVE DecimalDigits(_)
DecimalDigits(n) ==
  IF n < 10 THEN <<48 + n>> ELSE DecimalDigits(n \div 10) \o <<48 + (n % 10)>>

(* label: `${String.fromCharCode(65 + r)}${c + 1}`, a string of code units *)
PanelLabel(r, c) == FromCharCode(65 + r) \o DecimalDigits(c + 1)

BuildPanels(state, colWidths, rowHeights) ==
  LET nc == Len(colWidths)
      nr == Len(rowHeights)
  IN [i \in 1..(nr * nc) |->
        LET r == (i - 1) \div nc
            c == (i - 1) % nc
        IN [x |-> TwicePosition(state.wallW, colWidths, state.panelGap, c + 1),
            y |-> TwicePosition(state.wallH, rowHeights, state.panelGap, r + 1),
            w |-> colWidths[c + 1],
            h |-> rowHeights[r + 1],
            col |-> c,
            row |-> r,
            label |-> PanelLabel(r, c),
            sizeLabel |-> <<colWidths[c + 1], rowHeights[r + 1]>>,
            holes |-> <<>>]]

solveAndBuildPanels(state) ==
  LET wSolutions == solveAxis(state.wallW, state.panelGap, state.enabledWidths)
      hSolutions == solveAxis(state.wallH, state.panelGap, state.enabledHeights)
  IN IF wSolutions = <<>> \/ hSolutions = <<>> THEN EmptyBuild
     ELSE LET layoutOptions ==
                Slice(ArraySort("layout", Combos(wSolutions, hSolutions)), MaxLayouts)
              idx == Min(state.selectedLayoutIdx, Len(layoutOptions) - 1)
          IN IF Len(layoutOptions) = 0 THEN EmptyBuild
             ELSE LET opt == layoutOptions[Max(0, idx) + 1]
                      colWidths == arrangeAxis(opt.w.counts)
                      rowHeights == arrangeAxis(opt.h.counts)
                  IN [layoutOptions |-> layoutOptions,
                      panels |-> BuildPanels(state, colWidths, rowHeights),
                      colWidths |-> colWidths,
                      rowHeights |-> rowHeights]

---------------------------------------------------------------------------
(* The explored inputs: the default configuration of the application      *)
(* (types.ts:99-141) and a grid of small walls, gaps and catalogs that     *)
(* includes a non-positive wall, a fractional length (2.5") and gaps wider *)
(* than a panel.                                                           *)

DefaultConfig ==
  [wallW |-> 24000, wallH |-> 12000, panelGap |-> 25,
   enabledWidths |-> {2400, 4800},
   enabledHeights |-> {9600, 12000, 14400},
   selectedLayoutIdx |-> 0]

WallWs == {0, 1000, 1200}

WallHs == {0 - 100, 1000}

Gaps == {0, 25, 300}

WidthBase == {250, 300, 500}

HeightBase == {300, 400}

Catalogs(base) == {S \in SUBSET base : Cardinality(S) <= MaxCatalog}

GridConfigs ==
  [wallW : WallWs, wallH : WallHs, panelGap : Gaps,
   enabledWidths : Catalogs(WidthBase),
   enabledHeights : Catalogs(HeightBase),
   selectedLayoutIdx : 0..MaxLayoutIdx]

(* a 2 ft wide, 108 ft tall wall of 24" x 48" panels: 27 rows *)
TallConfig ==
  [wallW |-> 2400, wallH |-> 129600, panelGap |-> 0,
   enabledWidths |-> {2400},
   enabledHeights |-> {4800},
   selectedLayoutIdx |-> 0]

Configs == {DefaultConfig, TallConfig} \cup GridConfigs

(* the count maps handed to arrangeAxis: any counts over the enabled widths *)
CountMaps(sizes) ==
  UNION {[keys -> 0..MaxCount] : keys \in SUBSET sizes}

---------------------------------------------------------------------------
(* Each engine function is pure: a behaviour starts from one configuration *)
(* and its single step applies one of the functions to it, recording the   *)
(* arguments and the returned value.                                       *)

NotCalled == args.op = "none"

(* What the caller's own objects hold once a call has returned.  An array  *)
(* argument is held by the caller in some order: the size catalogs in      *)
(* ascending order (types.ts:91-92, 99-141), the hole sizes in descending  *)
(* order (types.ts:93).                                                    *)

(* array.slice().sort(...): slice() allocates a copy and the in-place sort *)
(* reorders the copy, so the caller's array keeps its order                *)
AfterSliceSort(array, sorted) == array

(* Object.entries(counts).map(...).sort(...) sorts the new entries array   *)
AfterEntries(counts) == counts

(* working panels that are the caller's own panel objects *)
AliasedPanels(panels, working) == working

(* state.panels.map(p => ({ ...p, holes: [...p.holes] })): the working     *)
(* panels and their holes arrays are new objects, so the assignments and   *)
(* pushes on them reach none of the caller's panels                        *)
AfterPanelCopy(panels, working) == panels

Init ==
  /\ panelState \in Configs
  /\ args = [op |-> "none"]
  /\ ret = <<>>
  /\ pending = <<>>
  /\ requested = "none"

SolveAxisW ==
  /\ NotCalled
  /\ args' = [op |-> "solveAxis", wallDim |-> panelState.wallW,
              gap |-> panelState.panelGap, sizes |-> panelState.enabledWidths,
              owned |-> [sizes |-> AfterSliceSort(SortAsc(panelState.enabledWidths),
                                                  SortDesc(panelState.enabledWidths))]]
  /\ ret' = solveAxis(panelState.wallW, panelState.panelGap, panelState.enabledWidths)
  /\ UNCHANGED <<panelState, pending, requested>>

SolveAxisH ==
  /\ NotCalled
  /\ args' = [op |-> "solveAxis", wallDim |-> panelState.wallH,
              gap |-> panelState.panelGap, sizes |-> panelState.enabledHeights,
              owned |-> [sizes |-> AfterSliceSort(SortAsc(panelState.enabledHeights),
                                                  SortDesc(panelState.enabledHeights))]]
  /\ ret' = solveAxis(panelState.wallH, panelState.panelGap, panelState.enabledHeights)
  /\ UNCHANGED <<panelState, pending, requested>>

ArrangeAxis ==
  \E counts \in CountMaps(panelState.enabledWidths) :
    /\ NotCalled
    /\ args' = [op |-> "arrangeAxis", counts |-> counts,
                owned |-> [counts |-> AfterEntries(counts)]]
    /\ ret' = arrangeAxis(counts)
    /\ UNCHANGED <<panelState, pending, requested>>

SolveAndBuildPanels ==
  /\ NotCalled
  /\ args' = [op |-> "solveAndBuildPanels", state |-> panelState,
              owned |-> [enabledWidths |->
                           AfterSliceSort(SortAsc(panelState.enabledWidths),
                                          SortDesc(panelState.enabledWidths)),
                         enabledHeights |->
                           AfterSliceSort(SortAsc(panelState.enabledHeights),
                                          SortDesc(panelState.enabledHeights))]]
  /\ ret' = solveAndBuildPanels(panelState)
  /\ UNCHANGED <<panelState, pending, requested>>

Next ==
  \/ SolveAxisW
  \/ SolveAxisH
  \/ ArrangeAxis
  \/ SolveAndBuildPanels

Spec == Init /\ [][Next]_vars

---------------------------------------------------------------------------
(* every raw result list stays within the range the sort model covers *)
SortRangeOK ==
  /\ Len(RawResults(panelState.wallW, panelState.panelGap, panelState.enabledWidths)) < 64
  /\ Len(RawResults(panelState.wallH, panelState.panelGap, panelState.enabledHeights)) < 64

---------------------------------------------------------------------------
(* Exact arithmetic of the hole generator.  Lattice positions, image       *)
(* coordinates and brightness are fractions [n, d] with d > 0, kept in     *)
(* lowest terms; the source computes them in floating point.               *)

RECURSIVE GCD(_, _)
GCD(a, b) == IF b = 0 THEN a ELSE GCD(b, a % b)

Frac(n, d) ==
  LET g == GCD(Abs(n), Abs(d))
  IN [n |-> Sign(d) * (n \div g), d |-> Abs(d) \div g]

Whole(k) == [n |-> k, d |-> 1]

FAdd(a, b) == Frac(a.n * b.d + b.n * a.d, a.d * b.d)

FSub(a, b) == Frac(a.n * b.d - b.n * a.d, a.d * b.d)

FMul(a, b) ==
  LET g1 == GCD(Abs(a.n), b.d)
      g2 == GCD(Abs(b.n), a.d)
  IN Frac((a.n \div g1) * (b.n \div g2), (a.d \div g2) * (b.d \div g1))

FDiv(a, b) == FMul(a, Frac(b.d, b.n))

(* the sign of a / b - c / d for b, d > 0, by comparing integer parts and   *)
(* then the reciprocals of the remainders, so that no product is formed    *)
RECURSIVE FracCmp(_, _, _, _)
FracCmp(a, b, c, d) ==
  IF a \div b # c \div d THEN Sign((a \div b) - (c \div d))
  ELSE IF a % b = 0 \/ c % d = 0 THEN Sign((a % b) - (c % d))
  ELSE FracCmp(d, c % d, b, a % b)

FLess(a, b) == FracCmp(a.n, a.d, b.n, b.d) < 0

FLeq(a, b) == FracCmp(a.n, a.d, b.n, b.d) <= 0

FMax(a, b) == IF FLess(a, b) THEN b ELSE a

FMin(a, b) == IF FLess(b, a) THEN b ELSE a

(* Math.floor *)
FFloor(a) == a.n \div a.d

(* Math.round: the nearest integer, a half going up *)
FRound(a) == (2 * a.n + a.d) \div (2 * a.d)

(* Math.max(0, Math.min(1, x)) *)
Clamp01(x) == FMax(Whole(0), FMin(Whole(1), x))

---------------------------------------------------------------------------
(* sampleImage, panelEngine.ts:28-41.  Brightness is kept on the scale of  *)
(* the threshold: a pixel value b of the source is stored as 255 * b, so   *)
(* that brightness > threshold / 255 reads brightness > threshold; it is a *)
(* fraction, as processImage produces it.  A state without a grayscale     *)
(* field has grayPixels = <<>>.                                            *)

FullBrightness == 255

(* the bilinear blend of the four neighbouring pixels *)
Bilinear(g00, g01, g10, g11, dx, dy) ==
  LET ix == FSub(Whole(1), dx)
      iy == FSub(Whole(1), dy)
  IN FAdd(FAdd(FMul(g00, FMul(ix, iy)), FMul(g01, FMul(dx, iy))),
          FAdd(FMul(g10, FMul(ix, dy)), FMul(g11, FMul(dx, dy))))

sampleImage(state, u, v) ==
  LET g == state.grayPixels
  IN IF g = <<>> THEN Whole(FullBrightness)
     ELSE LET w == state.imgWidth
              h == state.imgHeight
              fx == FMul(Clamp01(u), Whole(w - 1))
              fy == FMul(Clamp01(v), Whole(h - 1))
              x0 == FFloor(fx)
              y0 == FFloor(fy)
              x1 == Min(x0 + 1, w - 1)
              y1 == Min(y0 + 1, h - 1)
          IN Bilinear(g[y0 * w + x0 + 1], g[y0 * w + x1 + 1],
                      g[y1 * w + x0 + 1], g[y1 * w + x1 + 1],
                      FSub(fx, Whole(x0)), FSub(fy, Whole(y0)))

---------------------------------------------------------------------------
(* computeAllHoles, panelEngine.ts:198-274.  Lengths are hundredths of an  *)
(* inch as before; hole diameters are eighths of an inch, the unit in      *)
(* which every standard size (types.ts:93) is an integer.  gamma is a      *)
(* positive fraction <<gn, gd>>.                                           *)

DefaultRefW == 4800

DefaultRefH == 12000

(* Math.max(...lengths) || fallback *)
RefLength(lengths, fallback) ==
  IF SeqMax(lengths) = 0 THEN fallback ELSE SeqMax(lengths)

(* the lattice count with the minimum spacing left out of both modes *)
LatticeCountUnclamped(state, area, spacing, gridCount, ref) ==
  IF state.spacingMode = "spacing"
  THEN Max(1, (area \div spacing) + 1)
  ELSE Max(1, FRound(FMul(Whole(gridCount), Frac(area, ref - 2 * state.margin))))

(* the number of lattice lines over an interior extent, lines 227-241 *)
LatticeCount(state, area, spacing, gridCount, ref) ==
  IF state.spacingMode = "spacing"
  THEN Max(1, (area \div Max(state.minSpacing, spacing)) + 1)
  ELSE Min(Max(1, FRound(FMul(Whole(gridCount),
                               Frac(area, ref - 2 * state.margin)))),
           (area \div state.minSpacing) + 1)

GridDims(state, panel) ==
  [cols |-> LatticeCount(state, panel.w - 2 * state.margin, state.spacingX,
                         state.gridCols, RefLength(state.colWidths, DefaultRefW)),
   rows |-> LatticeCount(state, panel.h - 2 * state.margin, state.spacingY,
                         state.gridRows, RefLength(state.rowHeights, DefaultRefH))]

(* a staggered pattern that keeps every column on its odd rows *)
RowColsFull(state, cols, r) == cols

(* cCols: the points of lattice row r (counted from 0), line 247 *)
RowCols(state, cols, r) ==
  IF state.gridPattern = "hex" /\ r % 2 = 1 THEN cols - 1 ELSE cols

(* lx of column c on row r, lines 248-251 *)
LocalX(state, areaW, cols, r, c) ==
  LET sx == IF cols > 1 THEN Frac(areaW, cols - 1) ELSE Whole(0)
      xOff == IF state.gridPattern = "hex" /\ r % 2 = 1
              THEN FMul(sx, Frac(1, 2)) ELSE Whole(0)
  IN FAdd(FAdd(Whole(state.margin),
               IF cols > 1 THEN FMul(Whole(c), Frac(areaW, cols - 1))
               ELSE Frac(areaW, 2)),
          xOff)

(* rows laid out from the panel edge, the margin left out *)
LocalYFromEdge(state, areaH, rows, r) ==
  IF rows > 1 THEN FMul(Whole(r), Frac(areaH, rows - 1)) ELSE Frac(areaH, 2)

(* ly of row r, line 252 *)
LocalY(state, areaH, rows, r) ==
  FAdd(Whole(state.margin),
       IF rows > 1 THEN FMul(Whole(r), Frac(areaH, rows - 1)) ELSE Frac(areaH, 2))

(* the candidate points of a panel in the order the loops visit them *)
Lattice(state, panel) ==
  LET areaW == panel.w - 2 * state.margin
      areaH == panel.h - 2 * state.margin
      dims == GridDims(state, panel)
  IN Flatten([rr \in 1..dims.rows |->
                [cc \in 1..RowCols(state, dims.cols, rr - 1) |->
                   [r |-> rr - 1, c |-> cc - 1,
                    x |-> LocalX(state, areaW, dims.cols, rr - 1, cc - 1),
                    y |-> LocalY(state, areaH, dims.rows, rr - 1)]]])

RECURSIVE Pow(_, _)
Pow(x, k) == IF k = 0 THEN 1 ELSE x * Pow(x, k - 1)

(* the darkness taken as brightness / thresh instead of 1 - brightness / thresh *)
RawDiamInverted(state, brightness, minD, maxD) ==
  [nan |-> state.threshold = 0,
   t |-> IF state.threshold = 0 THEN Whole(0)
         ELSE Clamp01(FDiv(brightness, Whole(state.threshold))),
   gamma |-> state.gamma, minD |-> minD, maxD |-> maxD]

(* Math.pow(Math.max(0, Math.min(1, 1 - brightness / thresh)), gam) is not *)
(* a fraction in general, so the raw diameter minD + t' * (maxD - minD) is *)
(* kept as the tuple it is computed from.  With thresh = 0 an accepted     *)
(* point has brightness 0 and 1 - 0 / 0 is NaN.                            *)
RawDiam(state, brightness, minD, maxD) ==
  [nan |-> state.threshold = 0,
   t |-> IF state.threshold = 0 THEN Whole(0)
         ELSE Clamp01(FSub(Whole(1), FDiv(brightness, Whole(state.threshold)))),
   gamma |-> state.gamma, minD |-> minD, maxD |-> maxD]

(* the sign of 2 * rawDiam - k, for a raw diameter that is a number: with  *)
(* t' = t^(gn/gd) and q = (k - 2 minD) / (2 (maxD - minD)) >= 0, t' is     *)
(* compared with q through t^gn and q^gd                                   *)
TwiceRawMinus(raw, k) ==
  LET span == raw.maxD - raw.minD
      c == k - 2 * raw.minD
      q == Frac(c, 2 * span)
      gn == raw.gamma[1]
      gd == raw.gamma[2]
  IN IF span = 0 \/ c < 0 THEN Sign(0 - c)
     ELSE Sign(Pow(raw.t.n, gn) * Pow(q.d, gd) - Pow(q.n, gd) * Pow(raw.t.d, gn))

(* Math.abs(rawDiam - a) < Math.abs(rawDiam - b); false when rawDiam is NaN *)
DistLess(raw, a, b) ==
  /\ ~raw.nan
  /\ \/ (a < b /\ TwiceRawMinus(raw, a + b) < 0)
     \/ (a > b /\ TwiceRawMinus(raw, a + b) > 0)

(* a scan that also moves to a size at the same distance *)
NearerOrEqual(raw, a, b) == ~DistLess(raw, b, a)

(* dist < bestDist, line 262 *)
Nearer(raw, a, b) == DistLess(raw, a, b)

(* the scan of lines 259-266 from index si on *)
RECURSIVE NearestFrom(_, _, _, _)
NearestFrom(sizes, si, bestSize, raw) ==
  IF si > Len(sizes) THEN bestSize
  ELSE NearestFrom(sizes, si + 1,
                   IF Nearer(raw, sizes[si], bestSize) THEN sizes[si] ELSE bestSize,
                   raw)

(* the first catalog entry, the scan left out *)
SnapFirst(sizes, raw) == sizes[1]

(* bestSize after the scan, lines 259-266 *)
Snap(sizes, raw) == NearestFrom(sizes, 2, sizes[1], raw)

(* u or v of a local position: (panel.x + lx) / wW, panel.x kept doubled *)
WallUV(twicePos, local, wall) == FDiv(FAdd(Frac(twicePos, 2), local), Whole(wall))

Brightness(state, panel, pt) ==
  sampleImage(state, WallUV(panel.x, pt.x, state.wallW), WallUV(panel.y, pt.y, state.wallH))

(* the bounds test of line 253 *)
OutOfPanel(panel, pt) ==
  \/ FLess(pt.x, Whole(0)) \/ FLess(Whole(panel.w), pt.x)
  \/ FLess(pt.y, Whole(0)) \/ FLess(Whole(panel.h), pt.y)

(* a gate that lets every sampled point through *)
SkippedNever(state, brightness) == FALSE

(* brightness > thresh, line 256 *)
Skipped(state, brightness) == FLess(Whole(state.threshold), brightness)

PanelHoles(state, panel, sizes) ==
  LET areaW == panel.w - 2 * state.margin
      areaH == panel.h - 2 * state.margin
      Kept(pt) == ~OutOfPanel(panel, pt) /\ ~Skipped(state, Brightness(state, panel, pt))
      pts == SelectSeq(Lattice(state, panel), Kept)
  IN IF areaW <= 0 \/ areaH <= 0 THEN <<>>
     ELSE [i \in 1..Len(pts) |->
             [x |-> pts[i].x, y |-> pts[i].y,
              d |-> Snap(sizes, RawDiam(state, Brightness(state, panel, pts[i]),
                                        sizes[1], sizes[Len(sizes)]))]]

(* the whole standard catalog, whatever is enabled *)
HoleSizesStandard(state) == SortAsc({2, 4, 5, 6, 8, 10, 12})

(* state.enabledHoleSizes.slice().sort((a, b) => a - b), line 208 *)
HoleSizes(state) == SortAsc(state.enabledHoleSizes)

(* lastGridInfo: the dimensions of the last panel with an interior *)
RECURSIVE LastGridInfo(_, _)
LastGridInfo(state, i) ==
  IF i = 0 THEN [cols |-> 0, rows |-> 0]
  ELSE IF state.panels[i].w - 2 * state.margin <= 0
          \/ state.panels[i].h - 2 * state.margin <= 0
       THEN LastGridInfo(state, i - 1)
       ELSE GridDims(state, state.panels[i])

(* state.panels.map(p => ({ ...p, holes: [...p.holes] })), line 199: the   *)
(* working panels carry every field of the panels of the state             *)
CopiedPanels(panels) == panels

PanelsKept(panels) == panels

(* panels.forEach(p => p.holes = []) on the copied panels.                 *)
ClearedPanels(panels) ==
  [i \in 1..Len(panels) |-> [panels[i] EXCEPT !.holes = <<>>]]

computeAllHoles(state) ==
  LET sizes == HoleSizes(state)
  IN IF state.grayPixels = <<>> \/ sizes = <<>>
     THEN [panels |-> ClearedPanels(CopiedPanels(state.panels)),
           gridInfo |-> [cols |-> 0, rows |-> 0]]
     ELSE [panels |-> [i \in 1..Len(state.panels) |->
                         [CopiedPanels(state.panels)[i] EXCEPT
                            !.holes = PanelHoles(state, state.panels[i], sizes)]],
           gridInfo |-> LastGridInfo(state, Len(state.panels))]

---------------------------------------------------------------------------
(* The states handed to computeAllHoles: a configuration with the panels,  *)
(* colWidths and rowHeights that solveAndBuildPanels derives from it       *)
(* (App.tsx:47-61), a grayscale field and the grid and hole settings.      *)
(* Geometry is explored in full under plain tone settings, tone settings   *)
(* in full under the default geometry.                                     *)

StandardHoleSizes == {2, 4, 5, 6, 8, 10, 12}

DefaultHoleSettings ==
  [margin |-> 100, spacingMode |-> "spacing", spacingX |-> 200, spacingY |-> 200,
   minSpacing |-> 200, gridCols |-> 46, gridRows |-> 118, gridPattern |-> "rect",
   enabledHoleSizes |-> StandardHoleSizes, threshold |-> 245, gamma |-> <<1, 1>>]

(* a grayscale field of whole levels 0..255 *)
Pixels(levels) == [k \in 1..Len(levels) |-> Whole(levels[k])]

NoImage == [grayPixels |-> <<>>, imgWidth |-> 0, imgHeight |-> 0]

DarkImage == [grayPixels |-> Pixels(<<0>>), imgWidth |-> 1, imgHeight |-> 1]

BrightImage == [grayPixels |-> Pixels(<<255>>), imgWidth |-> 1, imgHeight |-> 1]

(* a uniform mid grey, a left-to-right ramp and a field that varies both ways *)
GreyImage == [grayPixels |-> Pixels(<<96>>), imgWidth |-> 1, imgHeight |-> 1]

RampImage == [grayPixels |-> Pixels(<<0, 255>>), imgWidth |-> 2, imgHeight |-> 1]

PatchImage == [grayPixels |-> Pixels(<<0, 128, 255, 64>>), imgWidth |-> 2, imgHeight |-> 2]

ToneImages == {NoImage, DarkImage, BrightImage, GreyImage, RampImage}

GeometryImages == {DarkImage, PatchImage}

Thresholds == {0, 128, 255}

Gammas == {<<1, 2>>, <<1, 1>>, <<2, 1>>}

HoleCatalogs == {{}, {6}, {2, 4, 6}, StandardHoleSizes}

Margins == {0, 25, 100}

MinSpacings == {100, 200}

Spacings == {150, 225}

GridCounts == {1, 3}

GridSpecs ==
  [spacingMode : {"spacing"}, spacingX : Spacings, spacingY : Spacings,
   gridCols : {DefaultHoleSettings.gridCols}, gridRows : {DefaultHoleSettings.gridRows}]
  \cup
  [spacingMode : {"count"},
   spacingX : {DefaultHoleSettings.spacingX}, spacingY : {DefaultHoleSettings.spacingY},
   gridCols : GridCounts \cup {DefaultHoleSettings.gridCols}, gridRows : GridCounts]

HoleLayouts ==
  [wallW : {1000, 1200}, wallH : {1000}, panelGap : {25},
   enabledWidths : {{300, 500}, {250}}, enabledHeights : {{400}},
   selectedLayoutIdx : {0}]

(* { ...a, ...b }, as one explicit record *)
Merge(a, b) ==
  CHOOSE merged \in {[k \in DOMAIN x \cup DOMAIN y |->
                        IF k \in DOMAIN y THEN y[k] ELSE x[k]] :
                      <<x, y>> \in {<<a, b>>}} : merged = merged

(* recomputeFull up to the hole pass: the layout products join the state *)
WithLayout(config) ==
  LET built == solveAndBuildPanels(config)
  IN Merge(config, [panels |-> built.panels, colWidths |-> built.colWidths,
                    rowHeights |-> built.rowHeights])

GeometryStates ==
  {Merge(Merge(Merge(WithLayout(l), DefaultHoleSettings), i),
         Merge(g, [margin |-> m, minSpacing |-> ms, gridPattern |-> p,
                   threshold |-> 255, enabledHoleSizes |-> {2, 4, 6}])) :
     l \in HoleLayouts, i \in GeometryImages,
     g \in GridSpecs, m \in Margins, ms \in MinSpacings, p \in {"rect", "hex"}}

ToneStates ==
  {Merge(Merge(Merge(WithLayout(l), DefaultHoleSettings), i),
         [threshold |-> th, gamma |-> gam, enabledHoleSizes |-> cat, margin |-> 25]) :
     l \in {h \in HoleLayouts : h.wallW = 1200 /\ h.enabledWidths = {300, 500}},
     i \in ToneImages, th \in Thresholds, gam \in Gammas, cat \in HoleCatalogs}

(* States whose panels already carry the apertures of an earlier           *)
(* computeAllHoles call (App.tsx keeps them in state.panels), after which  *)
(* the image was removed, the catalog emptied, or only a setting changed.  *)
PerforatedBase ==
  {Merge(Merge(Merge(WithLayout(l), DefaultHoleSettings), i), [margin |-> 25]) :
     l \in {h \in HoleLayouts : h.wallW = 1200 /\ h.enabledWidths = {300, 500}},
     i \in {DarkImage, RampImage}}

CarriedStates ==
  {Merge([s EXCEPT !.panels = computeAllHoles(s).panels], change) :
     s \in PerforatedBase,
     change \in {NoImage, [enabledHoleSizes |-> {}], [gridPattern |-> "hex"]}}

HoleStates == GeometryStates \cup ToneStates

HolesInit ==
  /\ panelState \in HoleStates
  /\ args = [op |-> "none"]
  /\ ret = <<>>
  /\ pending = <<>>
  /\ requested = "none"

ComputeAllHoles ==
  /\ NotCalled
  /\ ret' = computeAllHoles(panelState)
  /\ args' = [op |-> "computeAllHoles", state |-> panelState,
              owned |-> [panels |-> AfterPanelCopy(panelState.panels, ret'.panels),
                         enabledHoleSizes |->
                           AfterSliceSort(SortDesc(panelState.enabledHoleSizes),
                                          SortAsc(panelState.enabledHoleSizes))]]
  /\ UNCHANGED <<panelState, pending, requested>>

HolesNext == ComputeAllHoles

HolesSpec == HolesInit /\ [][HolesNext]_vars

(* All five engine functions applied to states whose panels carry          *)
(* apertures, as the application calls them on its own state.              *)
FrameStates == PerforatedBase \cup CarriedStates

FrameInit ==
  /\ panelState \in FrameStates
  /\ args = [op |-> "none"]
  /\ ret = <<>>
  /\ pending = <<>>
  /\ requested = "none"

FrameNext ==
  \/ SolveAxisW
  \/ SolveAxisH
  \/ ArrangeAxis
  \/ SolveAndBuildPanels
  \/ ComputeAllHoles

FrameSpec == FrameInit /\ [][FrameNext]_vars

----------------------------------------------------------------------------
(* processImage, panelEngine.ts:4-26.  A decoded image is given by the     *)
(* luma 0..255 of its pixels (grey pixels, for which the weighted sum of   *)
(* line 20 is the level itself).  The result is kept exact and on the      *)
(* 0..255 scale; the source stores it in a Float32Array.                   *)

NoSource == "null"

SourceImages == {"imgA", "imgB"}

(* imgA: one black pixel; imgB: one mid-grey pixel *)
Decoded(img) ==
  IF img = "imgA" THEN [width |-> 1, height |-> 1, luma |-> <<0>>]
  ELSE [width |-> 1, height |-> 1, luma |-> <<128>>]

(* cf = (1 + co) / (1 - co + 0.001) with co = contrast / 100 *)
ContrastFactor(contrast) == Frac(10 * (100 + contrast), 1001 - 10 * contrast)

(* v = (v + br - 0.5) * cf + 0.5; if (invert) v = 1 - v; clamp to [0, 1] *)
ProcessedPixel(level, brightness, contrast, invert) ==
  LET half == Frac(FullBrightness, 2)
      shifted == FSub(FAdd(Whole(level), Frac(FullBrightness * brightness, 100)), half)
      v == FAdd(FMul(shifted, ContrastFactor(contrast)), half)
      w == IF invert THEN FSub(Whole(FullBrightness), v) ELSE v
  IN FMax(Whole(0), FMin(Whole(FullBrightness), w))

processImage(state) ==
  LET img == Decoded(state.sourceImage)
  IN [grayPixels |-> [k \in 1..Len(img.luma) |->
                        ProcessedPixel(img.luma[k], state.brightness,
                                       state.contrast, state.invert)],
      imgWidth |-> img.width,
      imgHeight |-> img.height]

----------------------------------------------------------------------------
(* The state handlers of the application, App.tsx:39-134 *)

IMAGE_KEYS == {"brightness", "contrast", "invert"}

LAYOUT_KEYS ==
  {"wallW", "wallH", "panelGap", "enabledWidths", "enabledHeights", "selectedLayoutIdx"}

(* the hole keys with the lattice pattern left out *)
HoleKeysWithoutPattern ==
  {"spacingMode", "spacingX", "spacingY", "gridCols", "gridRows",
   "enabledHoleSizes", "threshold", "gamma", "margin"}

HOLE_KEYS ==
  {"spacingMode", "spacingX", "spacingY", "gridCols", "gridRows", "gridPattern",
   "enabledHoleSizes", "threshold", "gamma", "margin"}

(* if (s.sourceImage) { const imgData = processImage(s); ... } *)
ImageStage(s) ==
  CHOOSE next \in
    {IF t.sourceImage # NoSource THEN Merge(t, processImage(t)) ELSE t :
       t \in {s}} : TRUE

(* solveAndBuildPanels and the clamp of selectedLayoutIdx *)
LayoutStage(s) ==
  CHOOSE next \in
    {Merge(t, [layoutOptions |-> built.layoutOptions,
               panels |-> built.panels,
               colWidths |-> built.colWidths,
               rowHeights |-> built.rowHeights,
               selectedLayoutIdx |->
                 Min(t.selectedLayoutIdx, Max(0, Len(built.layoutOptions) - 1))]) :
       <<t, built>> \in {<<s, solveAndBuildPanels(s)>>}} : TRUE

(* the layout solved again from its first option *)
LayoutReset(s) == LayoutStage([s EXCEPT !.selectedLayoutIdx = 0])

(* if (needsImage || needsLayout) { ... } has no else: without such a key  *)
(* the layout fields of the state are left as they are                     *)
LayoutUntouched(s) == s

(* if (s.grayPixels) { ... computeAllHoles(s) ... } *)
HoleStage(s) ==
  CHOOSE next \in
    {IF t.grayPixels # <<>>
     THEN CHOOSE holed \in
            {Merge(t, [panels |-> holes.panels, gridInfo |-> holes.gridInfo]) :
               holes \in {computeAllHoles(t)}} : TRUE
     ELSE t : t \in {s}} : TRUE

recomputeFull(state) == HoleStage(LayoutStage(ImageStage(state)))

handleStateChange(prev, updates) ==
  LET next == Merge(prev, updates)
      keys == DOMAIN updates
      needsImage == keys \cap IMAGE_KEYS # {}
      needsLayout == keys \cap LAYOUT_KEYS # {}
      needsHoles == keys \cap HOLE_KEYS # {}
  IN IF ~needsImage /\ ~needsLayout /\ ~needsHoles THEN next
     ELSE LET s1 == IF needsImage THEN ImageStage(next) ELSE next
              s2 == IF needsImage \/ needsLayout THEN LayoutStage(s1)
                    ELSE LayoutUntouched(s1)
          IN HoleStage(s2)

(* img.onload of handleImageLoad, lines 103-106 *)
imageLoaded(prev, img) == recomputeFull(Merge(prev, [sourceImage |-> img]))

(* the layout of the state as it is, not solved again *)
KeptLayout(next) ==
  [layoutOptions |-> next.layoutOptions, panels |-> next.panels,
   colWidths |-> next.colWidths, rowHeights |-> next.rowHeights]

(* the layout handleImageClear puts in the state: solved again, every      *)
(* panel with holes: []                                                    *)
ClearedLayout(next) ==
  LET built == solveAndBuildPanels(next)
  IN [layoutOptions |-> built.layoutOptions,
      panels |-> ClearedPanels(built.panels),
      colWidths |-> built.colWidths, rowHeights |-> built.rowHeights]

handleImageClear(prev) ==
  LET next == Merge(prev, Merge([sourceImage |-> NoSource], NoImage))
  IN Merge(next, ClearedLayout(next))

----------------------------------------------------------------------------
(* The application explored: a small wall with the default hole settings,  *)
(* as the state stands once the initial recomputeFull has run (App.tsx,    *)
(* the effect after recomputeFull).                                        *)

AppConfig ==
  Merge(Merge([wallW |-> 1000, wallH |-> 400, panelGap |-> 25,
               enabledWidths |-> {500}, enabledHeights |-> {400},
               selectedLayoutIdx |-> 0,
               brightness |-> 0, contrast |-> 0, invert |-> FALSE,
               showLabels |-> TRUE, sourceImage |-> NoSource,
               gridInfo |-> [cols |-> 0, rows |-> 0]],
              DefaultHoleSettings),
        Merge(NoImage, EmptyBuild))

(* The value a control sends for a key: the wall width field one of two   *)
(* widths, the layout select the other option, a toggle the opposite of    *)
(* what is shown.                                                          *)
NewValue(state, k) ==
  CASE k = "wallW" -> (IF state.wallW = 1000 THEN 500 ELSE 1000)
    [] k = "selectedLayoutIdx" -> 1 - state.selectedLayoutIdx
    [] k = "invert" -> ~state.invert
    [] k = "gridPattern" -> (IF state.gridPattern = "rect" THEN "hex" ELSE "rect")
    [] k = "showLabels" -> ~state.showLabels

(* one key per control; the chat panel sends several keys at once *)
UpdateKeySets ==
  {{"wallW"}, {"selectedLayoutIdx"}, {"invert"}, {"gridPattern"}, {"showLabels"},
   {"gridPattern", "showLabels"}, {"wallW", "gridPattern"}}

Updates(state) == {[k \in keys |-> NewValue(state, k)] : keys \in UpdateKeySets}

(* the layout select offers the options of the state only (ControlPanel) *)
Offered(state, updates) ==
  "selectedLayoutIdx" \in DOMAIN updates
     => updates.selectedLayoutIdx < Len(state.layoutOptions)

AppInit ==
  /\ panelState = recomputeFull(AppConfig)
  /\ args = [op |-> "none"]
  /\ ret = <<>>
  /\ pending = <<>>
  /\ requested = "none"

HandleStateChange ==
  \E updates \in Updates(panelState) :
    /\ Offered(panelState, updates)
    /\ panelState' = handleStateChange(panelState, updates)
    /\ args' = [op |-> "handleStateChange", updates |-> updates, prev |-> panelState]
    /\ UNCHANGED <<ret, pending, requested>>

(* the decode of an image requested earlier completes *)
ImageLoaded ==
  \E img \in {"imgA"} :
    /\ panelState' = imageLoaded(panelState, img)
    /\ args' = [op |-> "handleImageLoad", image |-> img, prev |-> panelState]
    /\ UNCHANGED <<ret, pending, requested>>

HandleImageClear ==
  /\ panelState' = handleImageClear(panelState)
  /\ args' = [op |-> "handleImageClear", prev |-> panelState]
  /\ UNCHANGED <<ret, pending, requested>>

AppNext ==
  \/ HandleStateChange
  \/ ImageLoaded
  \/ HandleImageClear

AppSpec == AppInit /\ [][AppNext]_vars

----------------------------------------------------------------------------
(* Image loads in flight, App.tsx:99-112: handleImageLoad starts a         *)
(* FileReader; its onload starts the decode of an Image; the onload of the *)
(* image sets the state.  Reads and decodes of different loads complete in *)
(* any order.  requested is the last request of the user.                  *)

MaxPending == 2

HandleImageLoad ==
  \E img \in SourceImages :
    /\ Len(pending) < MaxPending
    /\ pending' = Append(pending, [image |-> img, stage |-> "reading"])
    /\ requested' = img
    /\ args' = [op |-> "handleImageLoad"]
    /\ UNCHANGED <<panelState, ret>>

FileRead ==
  \E i \in 1..Len(pending) :
    /\ pending[i].stage = "reading"
    /\ pending' = [pending EXCEPT ![i].stage = "decoding"]
    /\ args' = [op |-> "reader.onload"]
    /\ UNCHANGED <<panelState, ret, requested>>

ImageDecoded ==
  \E i \in 1..Len(pending) :
    /\ pending[i].stage = "decoding"
    /\ panelState' = imageLoaded(panelState, pending[i].image)
    /\ pending' = SubSeq(pending, 1, i - 1) \o SubSeq(pending, i + 1, Len(pending))
    /\ args' = [op |-> "img.onload"]
    /\ UNCHANGED <<ret, requested>>

ClearRequested ==
  /\ panelState' = handleImageClear(panelState)
  /\ requested' = "clear"
  /\ args' = [op |-> "handleImageClear"]
  /\ UNCHANGED <<ret, pending>>

LoadNext ==
  \/ HandleImageLoad
  \/ FileRead
  \/ ImageDecoded
  \/ ClearRequested

LoadSpec == AppInit /\ [][LoadNext]_vars

---------------------------------------------------------------------------
(* Vocabulary of the properties *)

(* the sizes that contribute at least one panel *)
UsedSizes(counts) == {k \in DOMAIN counts : counts[k] > 0}

(* the multiset of panel lengths a count map describes *)
Multiset(counts) == {<<k, counts[k]>> : k \in UsedSizes(counts)}

RECURSIVE WeightedSum(_, _, _)
WeightedSum(counts, keys, byLength) ==
  IF keys = {} THEN 0
  ELSE LET k == SetMin(keys)
       IN (IF byLength THEN k * counts[k] ELSE counts[k])
          + WeightedSum(counts, keys \ {k}, byLength)

SumOfLengths(counts) == WeightedSum(counts, DOMAIN counts, TRUE)

PanelCount(counts) == WeightedSum(counts, DOMAIN counts, FALSE)

(* coverage of a exceeds coverage of b by more than 0.003 *)
CoverageAboveBy(a, b) ==
  IF a.coverage.den > 0
  THEN (a.total - b.total) * CovTolDen > CovTolNum * a.coverage.den
  ELSE IF a.coverage.den < 0
       THEN (a.total - b.total) * CovTolDen < CovTolNum * a.coverage.den
       ELSE FALSE

(* the coverages of a and b differ by less than 0.003 *)
CoverageWithin(a, b) ==
  /\ a.coverage.den # 0
  /\ Abs(a.total - b.total) * CovTolDen < CovTolNum * Abs(a.coverage.den)

Occurrences(s, v) == Cardinality({i \in 1..Len(s) : s[i] = v})

IsSolveAxis == args.op = "solveAxis"

IsArrangeAxis == args.op = "arrangeAxis"

IsBuild == args.op = "solveAndBuildPanels"

---------------------------------------------------------------------------
(* C1: every AxisSolution returned by solveAxis has total <= wallDim + gap *)
(* + 0.01, where total is the sum of the used lengths plus (numPanels - 1) *)
(* gaps.                                                                   *)
C1_TotalWithinBound ==
  IsSolveAxis =>
    \A i \in 1..Len(ret) :
      /\ ret[i].numPanels = PanelCount(ret[i].counts)
      /\ ret[i].total = SumOfLengths(ret[i].counts) + (ret[i].numPanels - 1) * args.gap
      /\ ret[i].total <= args.wallDim + args.gap + Tol

(* a returned solution of several panels that is longer than the wall *)
C1_Witness ==
  /\ IsSolveAxis
  /\ \E i \in 1..Len(ret) :
       /\ ret[i].numPanels >= 2
       /\ ret[i].total > args.wallDim
       /\ args.gap > 0

(* C2: in the list returned by solveAxis, of two solutions whose coverage  *)
(* differs by more than 0.003 the one with the higher coverage comes first.*)
C2_HigherCoverageFirst ==
  IsSolveAxis =>
    \A i, j \in 1..Len(ret) :
      i < j => ~CoverageAboveBy(ret[j], ret[i])

(* C3: in the list returned by solveAxis, two solutions whose coverage     *)
(* differs by less than 0.003 are ordered by fewer distinct sizes actually *)
(* used first and, when that is equal, by fewer panels first.              *)
C3_TieBreakOrder ==
  IsSolveAxis =>
    \A i, j \in 1..Len(ret) :
      (i < j /\ CoverageWithin(ret[i], ret[j])) =>
        LET di == Cardinality(UsedSizes(ret[i].counts))
            dj == Cardinality(UsedSizes(ret[j].counts))
        IN \/ di < dj
           \/ (di = dj /\ ret[i].numPanels <= ret[j].numPanels)

(* C4: no two solutions in the list returned by solveAxis describe the     *)
(* same multiset of panel lengths.                                         *)
C4_NoDuplicateMultiset ==
  IsSolveAxis =>
    \A i, j \in 1..Len(ret) :
      i # j => Multiset(ret[i].counts) # Multiset(ret[j].counts)

(* every total-with-gaps of a non-empty multiset of catalog sizes, at most *)
(* 30 panels per size, that stays within wallDim + gap + 0.01              *)
AdmissibleTotals(wallDim, gap, sizes) ==
  IF sizes = {} \/ wallDim + gap + Tol < 0 THEN {}
  ELSE LET cap == Min(MaxPerSize, (wallDim + gap + Tol) \div SetMin(sizes))
           totalOf(c) == SumOfLengths(c) + (PanelCount(c) - 1) * gap
       IN {totalOf(c) : c \in {d \in [sizes -> 0..cap] :
                                 /\ PanelCount(d) > 0
                                 /\ totalOf(d) <= wallDim + gap + Tol}}

(* C5: the first solution returned by solveAxis has coverage at least      *)
(* C - 0.003, where C is the maximum coverage over all non-empty multisets *)
(* of catalog sizes with at most 30 panels per size and total-with-gaps    *)
(* <= wallDim + gap + 0.01 (stated for a positive wall).                   *)
C5_FirstIsBestCoverage ==
  (IsSolveAxis /\ args.wallDim > 0 /\ Len(ret) > 0) =>
    \A t \in AdmissibleTotals(args.wallDim, args.gap, args.sizes) :
      (t - ret[1].total) * CovTolDen <= CovTolNum * args.wallDim

(* C6: for wall 240x120, gap 0.25, widths {24,48} and heights {96,120,144} *)
(* the top-ranked layout option uses height 120 with 100% height coverage  *)
(* and is ranked above every option whose height solution uses 144.        *)
C6_DefaultTopLayout ==
  (IsBuild /\ args.state = DefaultConfig) =>
    /\ Len(ret.layoutOptions) > 0
    /\ UsedSizes(ret.layoutOptions[1].h.counts) = {12000}
    /\ ret.layoutOptions[1].h.total = args.state.wallH
    /\ ret.layoutOptions[1].h.coverage.num = ret.layoutOptions[1].h.coverage.den
    /\ \A i \in 1..Len(ret.layoutOptions) :
         14400 \in UsedSizes(ret.layoutOptions[i].h.counts) => i > 1

(* the default configuration has been solved and yields a full option list *)
C6_Witness ==
  /\ IsBuild
  /\ args.state = DefaultConfig
  /\ Len(ret.layoutOptions) = MaxLayouts
  /\ \E i \in 1..Len(ret.layoutOptions) :
       UsedSizes(ret.layoutOptions[i].h.counts) = {9600}

(* no catalog length fits: the catalog is empty or every length is beyond  *)
(* what an AxisSolution may total, wallDim + gap + 0.01                    *)
NothingFits(wallDim, gap, sizes) ==
  \A size \in sizes : size > wallDim + gap + Tol

C8_NonPositiveWallEmpty ==
  /\ (IsSolveAxis /\ args.wallDim <= 0) => ret = <<>>
  /\ (IsBuild /\ (args.state.wallW <= 0 \/ args.state.wallH <= 0)) => ret.panels = <<>>

(* C9: arrangeAxis returns a permutation of the input multiset: every      *)
(* length appears exactly as many times as its count and nothing else      *)
(* appears.                                                                *)
C9_ArrangeIsPermutation ==
  IsArrangeAxis =>
    /\ \A k \in DOMAIN args.counts : Occurrences(ret, k) = args.counts[k]
    /\ \A i \in 1..Len(ret) : ret[i] \in UsedSizes(args.counts)

(* the lengths of a sequence that occur most often, and the dominant one:  *)
(* the most frequent, the largest of them when several tie                 *)
Dominant(s) ==
  LET vals == {s[i] : i \in 1..Len(s)}
      top == {v \in vals : \A u \in vals : Occurrences(s, u) <= Occurrences(s, v)}
  IN SetMax(top)

(* the entries equal to v form one run that starts right after ceil(e/2)   *)
(* of the e entries smaller than v, the other smaller entries following it *)
CentralRun(s, v) ==
  LET e == Cardinality({i \in 1..Len(s) : s[i] < v})
      m == Occurrences(s, v)
      half == (e + 1) \div 2
  IN \A i \in 1..Len(s) :
       /\ (i <= half) => s[i] < v
       /\ (half < i /\ i <= half + m) => s[i] = v
       /\ (half + m < i /\ i <= e + m) => s[i] < v

(* C10 as claimed: the single most frequent length (the largest if tied by *)
(* count) forms one contiguous central run, with ceil(edgeCount/2) of the  *)
(* strictly smaller lengths before it and the remainder after it.          *)
C10_MostFrequentCentral ==
  (IsArrangeAxis /\ Len(ret) > 0) => CentralRun(ret, Dominant(ret))

(* C10 amended: the largest length of the returned sequence forms one      *)
(* contiguous run, with ceil(edgeCount/2) of the strictly smaller lengths  *)
(* before it and the remainder after it.                                   *)
C10_LargestCentral ==
  (IsArrangeAxis /\ Len(ret) > 0) =>
    CentralRun(ret, SeqMax(ret))

(* an arrangement with an odd number of smaller lengths on both sides of   *)
(* the run of the largest one                                              *)
C10_Witness ==
  /\ IsArrangeAxis
  /\ Len(ret) >= 4
  /\ ret[1] < SeqMax(ret)
  /\ ret[Len(ret)] < SeqMax(ret)
  /\ Cardinality({i \in 1..Len(ret) : ret[i] < SeqMax(ret)}) = 3

(* span of the materialised grid along one axis, read off the panels: the  *)
(* lengths of one line of panels plus the gaps between them                *)
GridSpan(lengths, gap) ==
  WeightedSum([i \in 1..Len(lengths) |-> lengths[i]], 1..Len(lengths), FALSE)
    + (Len(lengths) - 1) * gap

(* the grid is centred on an axis: the panels of the first line start at   *)
(* (wall - span) / 2 and those of the last line end at wall minus that     *)
(* offset (positions are doubled, so the offset appears as wall - span)    *)
CentredOn(wall, span, starts, ends) ==
  /\ \A s \in starts : s = wall - span
  /\ \A e \in ends : e = 2 * wall - (wall - span)

(* C11: for a chosen layout whose total span (lengths plus (n - 1) gaps)   *)
(* is at most the wall extent, the first panel starts at offset            *)
(* (wallExtent - totalSpan) / 2 on each axis and the last panel ends at    *)
(* wallExtent minus that same offset.                                      *)
C11_GridCentred ==
  (IsBuild /\ Len(ret.panels) > 0) =>
    LET P == {ret.panels[i] : i \in 1..Len(ret.panels)}
        spanW == GridSpan(ret.colWidths, args.state.panelGap)
        spanH == GridSpan(ret.rowHeights, args.state.panelGap)
    IN /\ (spanW <= args.state.wallW) =>
            CentredOn(args.state.wallW, spanW,
                      {p.x : p \in {q \in P : q.col = 0}},
                      {p.x + 2 * p.w : p \in {q \in P : q.col = Len(ret.colWidths) - 1}})
       /\ (spanH <= args.state.wallH) =>
            CentredOn(args.state.wallH, spanH,
                      {p.y : p \in {q \in P : q.row = 0}},
                      {p.y + 2 * p.h : p \in {q \in P : q.row = Len(ret.rowHeights) - 1}})

(* a grid of several columns and rows separated by gaps that is strictly   *)
(* narrower and lower than its wall                                        *)
C11_Witness ==
  /\ IsBuild
  /\ Len(ret.colWidths) >= 2
  /\ Len(ret.rowHeights) >= 2
  /\ args.state.panelGap > 0
  /\ GridSpan(ret.colWidths, args.state.panelGap) < args.state.wallW
  /\ GridSpan(ret.rowHeights, args.state.panelGap) < args.state.wallH
  /\ ret.panels[1].x > 0
  /\ ret.panels[Len(ret.panels)].y + 2 * ret.panels[Len(ret.panels)].h < 2 * args.state.wallH

(* the number of distinct sizes a layout option uses on its two axes *)
LayoutDistinct(o) ==
  Cardinality(UsedSizes(o.w.counts)) + Cardinality(UsedSizes(o.h.counts))

(* the coverages of two layout options differ by less than 0.003 *)
LayoutCoverageWithin(a, b) ==
  LET d == Abs(b.totalCoverage.num - a.totalCoverage.num)
      den == Abs(a.totalCoverage.den)
  IN /\ den # 0
     /\ b.totalCoverage.den # 0
     /\ \/ d < (CovTolNum * den) \div CovTolDen
        \/ (d = (CovTolNum * den) \div CovTolDen /\ (CovTolNum * den) % CovTolDen # 0)

(* C12: layout options are ranked with the tie-break policy of the axis    *)
(* solutions: of two options whose totalCoverage differs by less than      *)
(* 0.003 the one with fewer distinct sizes comes first, then the one with  *)
(* fewer panels; of two options whose totalCoverage differs by more than   *)
(* 0.003 the one with the higher coverage comes first.                     *)
C12_LayoutRanking ==
  IsBuild =>
    \A i, j \in 1..Len(ret.layoutOptions) :
      i < j =>
        LET a == ret.layoutOptions[i]
            b == ret.layoutOptions[j]
        IN /\ LayoutCoverageWithin(a, b) =>
                \/ LayoutDistinct(a) < LayoutDistinct(b)
                \/ /\ LayoutDistinct(a) = LayoutDistinct(b)
                   /\ a.totalPanels <= b.totalPanels
           /\ (ExceedsTolerance(a.totalCoverage, b.totalCoverage)) =>
                CoverageDiffSign(a.totalCoverage, b.totalCoverage) < 0

---------------------------------------------------------------------------
(* Vocabulary of the hole properties *)

IsHoles == args.op = "computeAllHoles"

(* every pixel of the grayscale field has the given level (0..255) *)
UniformField(state, level) ==
  /\ state.grayPixels # <<>>
  /\ \A k \in 1..Len(state.grayPixels) : state.grayPixels[k] = Whole(level)

(* the panel has a non-degenerate interior *)
HasInterior(state, panel) ==
  panel.w - 2 * state.margin > 0 /\ panel.h - 2 * state.margin > 0

(* the apertures returned, each with the brightness sampled at its position *)
Apertures ==
  UNION {{[panel |-> i, x |-> ret.panels[i].holes[k].x, y |-> ret.panels[i].holes[k].y,
           d |-> ret.panels[i].holes[k].d,
           b |-> Brightness(args.state, ret.panels[i], ret.panels[i].holes[k])] :
            k \in 1..Len(ret.panels[i].holes)} : i \in 1..Len(ret.panels)}

(* the raw diameter of the claim for a sampled brightness *)
RawOf(b) ==
  RawDiam(args.state, b, SetMin(args.state.enabledHoleSizes),
          SetMax(args.state.enabledHoleSizes))

(* C13: computeAllHoles never emits an aperture at a lattice point whose   *)
(* sampled brightness times 255 exceeds the threshold; a uniformly         *)
(* maximal-brightness field with threshold < 255 yields no aperture in any *)
(* panel.                                                                  *)
C13_NoApertureAboveThreshold ==
  IsHoles =>
    /\ \A a \in Apertures : FLeq(a.b, Whole(args.state.threshold))
    /\ (UniformField(args.state, FullBrightness) /\ args.state.threshold < FullBrightness) =>
         \A i \in 1..Len(ret.panels) : ret.panels[i].holes = <<>>

(* a field with points on both sides of a threshold below 255: a panel     *)
(* keeps some of its candidate points and loses others                     *)
C13_Witness ==
  /\ IsHoles
  /\ args.state.threshold < FullBrightness
  /\ \E i \in 1..Len(ret.panels) :
       /\ Len(ret.panels[i].holes) > 0
       /\ Len(ret.panels[i].holes) < Len(Lattice(args.state, args.state.panels[i]))

(* C14: every aperture has a diameter that is a member of the enabled      *)
(* hole-size catalog; with a single-entry catalog every aperture has       *)
(* exactly that diameter, for every gamma and threshold.                   *)
C14_DiameterInCatalog ==
  IsHoles =>
    \A a \in Apertures :
      /\ a.d \in args.state.enabledHoleSizes
      /\ Cardinality(args.state.enabledHoleSizes) = 1 => args.state.enabledHoleSizes = {a.d}

(* apertures of two different diameters from a catalog of three sizes *)
C14_Witness ==
  /\ IsHoles
  /\ Cardinality(args.state.enabledHoleSizes) = 3
  /\ \E a, b \in Apertures : a.d # b.d

(* C15: the diameter of an accepted point is the catalog entry with the    *)
(* minimal absolute difference to rawDiameter = min + t' * (max - min);    *)
(* of two entries exactly equidistant from it the smaller is chosen.  The  *)
(* raw diameter is a number when the threshold is positive.                *)
C15_NearestEntry ==
  (IsHoles /\ args.state.threshold > 0) =>
    \A a \in Apertures :
      \A s \in args.state.enabledHoleSizes :
        /\ ~DistLess(RawOf(a.b), s, a.d)
        /\ s < a.d => DistLess(RawOf(a.b), a.d, s)

(* an aperture whose raw diameter lies exactly between its diameter and    *)
(* the next larger catalog entry                                           *)
C15_Witness ==
  /\ IsHoles
  /\ args.state.threshold > 0
  /\ \E a \in Apertures :
       \E s \in args.state.enabledHoleSizes :
         /\ s > a.d
         /\ ~DistLess(RawOf(a.b), s, a.d)
         /\ ~DistLess(RawOf(a.b), a.d, s)

(* C16: darker never gives a smaller hole: for a fixed threshold, gamma >  *)
(* 0 and catalog, of two accepted points with sampled brightness b1 <= b2  *)
(* the diameter at b1 is at least the diameter at b2.                      *)
C16_DarkerNotSmaller ==
  IsHoles =>
    \A a1, a2 \in Apertures : FLeq(a1.b, a2.b) => a1.d >= a2.d

(* a strictly darker point with a strictly larger hole *)
C16_Witness ==
  /\ IsHoles
  /\ \E a1, a2 \in Apertures : FLess(a1.b, a2.b) /\ a1.d > a2.d

(* C17: with a uniformly zero-brightness field, threshold > 0 and gamma =  *)
(* 1, every candidate lattice point of every panel with a non-degenerate   *)
(* interior produces an aperture, and its diameter is the largest entry of *)
(* the (non-empty) catalog.                                                *)
C17_DarkFieldFillsLattice ==
  (/\ IsHoles
   /\ UniformField(args.state, 0)
   /\ args.state.threshold > 0
   /\ args.state.gamma = <<1, 1>>
   /\ args.state.enabledHoleSizes # {}) =>
    \A i \in 1..Len(ret.panels) :
      HasInterior(args.state, args.state.panels[i]) =>
        LET points == Lattice(args.state, args.state.panels[i])
            holes == ret.panels[i].holes
        IN /\ Len(holes) = Len(points)
           /\ \A k \in 1..Len(points) :
                /\ holes[k].x = points[k].x
                /\ holes[k].y = points[k].y
                /\ holes[k].d = SetMax(args.state.enabledHoleSizes)

(* a dark field over panels with several candidate points each and a       *)
(* catalog of several sizes                                                *)
C17_Witness ==
  /\ IsHoles
  /\ UniformField(args.state, 0)
  /\ args.state.threshold > 0
  /\ args.state.gamma = <<1, 1>>
  /\ Cardinality(args.state.enabledHoleSizes) > 1
  /\ \E i \in 1..Len(ret.panels) : Len(ret.panels[i].holes) > 3

RowPoints(points, r) == {points[k] : k \in {j \in 1..Len(points) : points[j].r = r}}

(* C19: in the staggered pattern with cols >= 2 every odd lattice row has  *)
(* exactly cols - 1 candidate points, each offset laterally by half the    *)
(* column pitch from the even-row point of its column, and every even row  *)
(* has cols points.                                                        *)
C19_StaggeredRows ==
  (IsHoles /\ args.state.gridPattern = "hex") =>
    \A i \in 1..Len(args.state.panels) :
      LET panel == args.state.panels[i]
          dims == GridDims(args.state, panel)
          points == Lattice(args.state, panel)
      IN (HasInterior(args.state, panel) /\ dims.cols >= 2) =>
           \A r \in 0..(dims.rows - 1) :
             IF r % 2 = 0
             THEN Cardinality(RowPoints(points, r)) = dims.cols
             ELSE /\ Cardinality(RowPoints(points, r)) = dims.cols - 1
                  /\ \A p \in RowPoints(points, r) :
                       \E e, f \in RowPoints(points, 0) :
                         /\ e.c = p.c
                         /\ f.c = p.c + 1
                         /\ FAdd(FSub(p.x, e.x), FSub(p.x, e.x)) = FSub(f.x, e.x)

(* a staggered lattice of several columns and rows whose points all became *)
(* apertures                                                               *)
C19_Witness ==
  /\ IsHoles
  /\ args.state.gridPattern = "hex"
  /\ \E i \in 1..Len(args.state.panels) :
       /\ HasInterior(args.state, args.state.panels[i])
       /\ GridDims(args.state, args.state.panels[i]).cols >= 3
       /\ GridDims(args.state, args.state.panels[i]).rows >= 3
       /\ Len(ret.panels[i].holes) = Len(Lattice(args.state, args.state.panels[i]))

(* the squared distance between two local positions *)
SquaredDistance(a, b) ==
  FAdd(FMul(FSub(a.x, b.x), FSub(a.x, b.x)), FMul(FSub(a.y, b.y), FSub(a.y, b.y)))

(* C20: the minimum spacing is enforced within each panel: in spacing mode *)
(* and in count mode, for both patterns, any two distinct apertures of the *)
(* same panel have a centre-to-centre distance of at least minSpacing.     *)
C20_MinSpacingEnforced ==
  IsHoles =>
    \A i \in 1..Len(ret.panels) :
      \A k, l \in 1..Len(ret.panels[i].holes) :
        k < l =>
          FLeq(Whole(args.state.minSpacing * args.state.minSpacing),
               SquaredDistance(ret.panels[i].holes[k], ret.panels[i].holes[l]))

(* count mode asking for more columns than the minimum spacing allows: two *)
(* neighbouring apertures end up exactly minSpacing apart                  *)
C20_Witness ==
  /\ IsHoles
  /\ args.state.spacingMode = "count"
  /\ \E i \in 1..Len(ret.panels) :
       /\ args.state.gridCols >
            ((ret.panels[i].w - 2 * args.state.margin) \div args.state.minSpacing) + 1
       /\ \E k, l \in 1..Len(ret.panels[i].holes) :
            /\ k < l
            /\ SquaredDistance(ret.panels[i].holes[k], ret.panels[i].holes[l])
                 = Whole(args.state.minSpacing * args.state.minSpacing)

----------------------------------------------------------------------------
(* C21: when the enabled hole-size catalog is empty or there is no         *)
(* grayscale field, computeAllHoles returns every panel with an empty      *)
(* aperture list and a 0 x 0 lattice, whatever apertures the input panels  *)
(* carried.                                                                *)
NoFieldOrCatalog(state) ==
  state.grayPixels = <<>> \/ state.enabledHoleSizes = {}

C21_NoFieldNoApertures ==
  (IsHoles /\ NoFieldOrCatalog(args.state)) =>
     /\ Len(ret.panels) = Len(args.state.panels)
     /\ \A i \in 1..Len(ret.panels) : ret.panels[i].holes = <<>>
     /\ ret.gridInfo = [cols |-> 0, rows |-> 0]

C21_Witness ==
  /\ IsHoles
  /\ args.state.enabledHoleSizes = {}
  /\ args.state.grayPixels # <<>>
  /\ \E i \in 1..Len(args.state.panels) : args.state.panels[i].holes # <<>>
  /\ \A i \in 1..Len(ret.panels) : ret.panels[i].holes = <<>>

----------------------------------------------------------------------------
(* C22: every materialized panel is labelled with a letter for its row     *)
(* (A, B, C, ... from the top) followed by its 1-based column number in    *)
(* decimal, and no two panels of a layout share a label.                   *)
IsLetter(codeUnit) == codeUnit \in 65..90

LabelsDistinct(panels) ==
  \A i, j \in 1..Len(panels) : panels[i].label = panels[j].label => i = j

C22_RowLetterColumnNumber ==
  IsBuild =>
    /\ \A i \in 1..Len(ret.panels) :
         /\ IsLetter(ret.panels[i].label[1])
         /\ ret.panels[i].label[1] = 65 + ret.panels[i].row
         /\ Tail(ret.panels[i].label) = DecimalDigits(ret.panels[i].col + 1)
    /\ LabelsDistinct(ret.panels)

(* the labels are distinct even where the row character is not a letter *)
C22_LabelsDistinct == IsBuild => LabelsDistinct(ret.panels)

----------------------------------------------------------------------------
----------------------------------------------------------------------------
(* C24: panels are placed by accumulating length plus gap: the panel after *)
(* column c starts at x_c + w_c + gap and the row after row r at           *)
(* y_r + h_r + gap; the grid has |colWidths| * |rowHeights| panels, the    *)
(* totalPanels of the chosen option; for a gap >= 0 no two panels overlap. *)
(* (positions are stored doubled)                                          *)
ChosenOption ==
  ret.layoutOptions[Max(0, Min(args.state.selectedLayoutIdx, Len(ret.layoutOptions) - 1)) + 1]

Overlap(p, q) ==
  /\ p.x < q.x + 2 * q.w
  /\ q.x < p.x + 2 * p.w
  /\ p.y < q.y + 2 * q.h
  /\ q.y < p.y + 2 * p.h

C24_AccumulatedPlacement ==
  IsBuild =>
    LET gap == args.state.panelGap
        P == ret.panels
    IN /\ \A i, j \in 1..Len(P) :
            /\ (P[j].row = P[i].row /\ P[j].col = P[i].col + 1)
                  => P[j].x = P[i].x + 2 * (P[i].w + gap)
            /\ (P[j].col = P[i].col /\ P[j].row = P[i].row + 1)
                  => P[j].y = P[i].y + 2 * (P[i].h + gap)
            /\ (gap >= 0 /\ i # j) => ~Overlap(P[i], P[j])
       /\ Len(P) = Len(ret.colWidths) * Len(ret.rowHeights)
       /\ \A c \in 0..(Len(ret.colWidths) - 1), r \in 0..(Len(ret.rowHeights) - 1) :
            \E i \in 1..Len(P) : P[i].col = c /\ P[i].row = r
       /\ Len(ret.layoutOptions) > 0 => Len(P) = ChosenOption.totalPanels

(* a grid of at least two columns and two rows with a positive gap *)
C24_Witness ==
  /\ IsBuild
  /\ args.state.panelGap > 0
  /\ Len(ret.colWidths) >= 2
  /\ Len(ret.rowHeights) >= 2
  /\ ret.colWidths[1] # ret.colWidths[2]
  /\ Len(ret.panels) = Len(ret.colWidths) * Len(ret.rowHeights)

----------------------------------------------------------------------------
(* C28: every solution solveAxis returns has only strictly positive counts *)
(* in its count map, so that the number of keys is the number of distinct  *)
(* sizes used.                                                             *)
C28_PositiveCounts ==
  IsSolveAxis =>
    \A i \in 1..Len(ret) :
      /\ \A k \in DOMAIN ret[i].counts : ret[i].counts[k] > 0
      /\ Cardinality(DOMAIN ret[i].counts) = Cardinality(UsedSizes(ret[i].counts))

----------------------------------------------------------------------------
(* C29: every materialized panel lies inside the wall: 0 <= x,             *)
(* x + w <= wallW, 0 <= y and y + h <= wallH (positions are stored         *)
(* doubled), and every axis solution of the options has coverage <= 1.     *)
C29_PanelsInsideWall ==
  IsBuild =>
    /\ \A i \in 1..Len(ret.panels) :
         /\ 0 <= ret.panels[i].x
         /\ ret.panels[i].x + 2 * ret.panels[i].w <= 2 * args.state.wallW
         /\ 0 <= ret.panels[i].y
         /\ ret.panels[i].y + 2 * ret.panels[i].h <= 2 * args.state.wallH
    /\ \A k \in 1..Len(ret.layoutOptions) :
         /\ ret.layoutOptions[k].w.total <= args.state.wallW
         /\ ret.layoutOptions[k].h.total <= args.state.wallH

----------------------------------------------------------------------------
(* C25: in the application, whenever there is no grayscale field every     *)
(* panel of the state has an empty aperture list.                          *)
C25_NoFieldNoApertures ==
  panelState.grayPixels = <<>> =>
    \A i \in 1..Len(panelState.panels) : panelState.panels[i].holes = <<>>

(* an image clear on a state whose panels carried apertures *)
C25_Witness ==
  /\ args.op = "handleImageClear"
  /\ \E i \in 1..Len(args.prev.panels) : args.prev.panels[i].holes # <<>>
  /\ panelState.grayPixels = <<>>
  /\ Len(panelState.panels) > 0

----------------------------------------------------------------------------
(* C26: the selective recompute of handleStateChange keeps the derived     *)
(* state (layoutOptions, colWidths, rowHeights, the panels and their       *)
(* aperture lists) equal to what recomputeFull produces from the current   *)
(* configuration.                                                          *)
Derived(state) ==
  [layoutOptions |-> state.layoutOptions, colWidths |-> state.colWidths,
   rowHeights |-> state.rowHeights, panels |-> state.panels]

----------------------------------------------------------------------------
(* C27: handleStateChange changes the layout only when a layout key or an  *)
(* image key is in the update: an update of hole keys only or of visual    *)
(* keys only leaves layoutOptions, colWidths, rowHeights,                  *)
(* selectedLayoutIdx and the x, y, w, h and label of every panel as they   *)
(* were, and an update of visual keys only leaves every aperture list as   *)
(* it was too.                                                             *)
Geometry(panels) ==
  [i \in 1..Len(panels) |->
     [x |-> panels[i].x, y |-> panels[i].y, w |-> panels[i].w, h |-> panels[i].h,
      label |-> panels[i].label]]

LayoutOf(state) ==
  [layoutOptions |-> state.layoutOptions, colWidths |-> state.colWidths,
   rowHeights |-> state.rowHeights, selectedLayoutIdx |-> state.selectedLayoutIdx,
   geometry |-> Geometry(state.panels)]

HolesOf(state) == [i \in 1..Len(state.panels) |-> state.panels[i].holes]

C27_LayoutFrame ==
  args.op = "handleStateChange" =>
    LET keys == DOMAIN args.updates
    IN /\ keys \cap (LAYOUT_KEYS \cup IMAGE_KEYS) = {}
            => LayoutOf(panelState) = LayoutOf(args.prev)
       /\ keys \cap (LAYOUT_KEYS \cup IMAGE_KEYS \cup HOLE_KEYS) = {}
            => HolesOf(panelState) = HolesOf(args.prev)

(* a hole-only update that changed the apertures of the layout chosen      *)
(* second in the list of options                                           *)
C27_Witness ==
  /\ args.op = "handleStateChange"
  /\ DOMAIN args.updates \subseteq HOLE_KEYS
  /\ Len(panelState.panels) > 0
  /\ panelState.selectedLayoutIdx = 1
  /\ HolesOf(panelState) # HolesOf(args.prev)
  /\ LayoutOf(panelState) = LayoutOf(args.prev)

----------------------------------------------------------------------------
(* C30: the last image request of the user wins: once no read or decode is *)
(* pending, sourceImage is the image of the most recently requested load,  *)
(* or there is no image and no grayscale field if the most recent request  *)
(* was a clear.                                                            *)
C30_LastRequestWins ==
  pending = <<>> =>
    /\ requested \in SourceImages => panelState.sourceImage = requested
    /\ requested = "clear" =>
         /\ panelState.sourceImage = NoSource
         /\ panelState.grayPixels = <<>>

====
